---- MODULE Spec2Model ----
(***************************************************************************)
(* Model of arbcompare (src/app.py): the ARB comparison helpers            *)
(* detect_language_code, extract_params, check_text_issues and             *)
(* compare_arb_files, and the button handler of main().                    *)
(*                                                                         *)
(* A Python str is a sequence of one-character strings.  A JSON value is a *)
(* record tagged with its Python type.  A dict is the sequence of its      *)
(* items in insertion order, with pairwise distinct keys.  An unassigned   *)
(* local is the empty sequence <<>>, an assigned one is <<value>>.         *)
(***************************************************************************)
EXTENDS Integers, Sequences, FiniteSets, TLC

VARIABLES
    pc,              \* the statement about to run
    ref_file,        \* main: the uploaded reference file
    tgt_file,        \* main: the uploaded target file
    tgt_name,        \* tgt_file.name / target_file_name
    reference_data,  \* main: json.load(ref_file); the first argument
    target_data,     \* main: json.load(tgt_file); the second argument
    ref_keys,        \* compare_arb_files: line 115
    tgt_keys,        \* compare_arb_files: line 116
    results,         \* what compare_arb_files returned
    exc,             \* main: the exception that left the try block
    ui,              \* main: the streamlit calls made after the click
    source,          \* check_text_issues: first argument
    target,          \* check_text_issues: second argument
    lang_code,       \* check_text_issues: third argument
    issues           \* what check_text_issues returned

vars == <<pc, ref_file, tgt_file, tgt_name, reference_data, target_data,
          ref_keys, tgt_keys, results, exc, ui,
          source, target, lang_code, issues>>

fileVars == <<ref_file, tgt_file>>

checkVars == <<source, target, lang_code, issues>>

(***************************************************************************)
(* Bounds of the model.                                                    *)
(***************************************************************************)
\* longest source/target text handed to check_text_issues directly
MaxTextLen == 3
\* longest translation value of the one-key mappings
MaxLen == 3
\* most entries of a mapping of the several-key mappings
MaxKeys == 2

(***************************************************************************)
(* Python str helpers.                                                     *)
(***************************************************************************)
LowerLetters ==
    <<"a", "b", "c", "d", "e", "f", "g", "h", "i", "j", "k", "l", "m",
      "n", "o", "p", "q", "r", "s", "t", "u", "v", "w", "x", "y", "z">>

UpperLetters ==
    <<"A", "B", "C", "D", "E", "F", "G", "H", "I", "J", "K", "L", "M",
      "N", "O", "P", "Q", "R", "S", "T", "U", "V", "W", "X", "Y", "Z">>

Digits == {"0", "1", "2", "3", "4", "5", "6", "7", "8", "9"}

Range(s) == {s[i] : i \in DOMAIN s}

\* characters str.strip() removes: the space, tab, line feed, carriage
\* return and form feed
Whitespace == {" ", "\t", "\n", "\r", "\f"}

\* the ASCII characters the regex class \w matches
WordChars == Range(LowerLetters) \cup Range(UpperLetters) \cup Digits \cup {"_"}

\* c.lower() for one character
LowerChar(c) ==
    IF c \in Range(UpperLetters)
    THEN LowerLetters[CHOOSE i \in DOMAIN UpperLetters : UpperLetters[i] = c]
    ELSE c

\* s.lower()
lower(s) == [i \in DOMAIN s |-> LowerChar(s[i])]

\* s.startswith(p)
startswith(s, p) == Len(s) >= Len(p) /\ SubSeq(s, 1, Len(p)) = p

\* s.endswith(p)
endswith(s, p) == Len(s) >= Len(p) /\ SubSeq(s, Len(s) - Len(p) + 1, Len(s)) = p

\* s.count(c) for a one-character c
count(s, c) == Cardinality({i \in DOMAIN s : s[i] = c})

\* sub in s
Contains(s, sub) ==
    \E i \in 0..(Len(s) - Len(sub)) : SubSeq(s, i + 1, i + Len(sub)) = sub

RECURSIVE lstrip(_)
lstrip(s) == IF s # <<>> /\ Head(s) \in Whitespace THEN lstrip(Tail(s)) ELSE s

RECURSIVE rstrip(_)
rstrip(s) ==
    IF s # <<>> /\ s[Len(s)] \in Whitespace
    THEN rstrip(SubSeq(s, 1, Len(s) - 1))
    ELSE s

\* s.strip(" "): spaces alone are removed
RECURSIVE strip_spaces(_)
strip_spaces(s) ==
    IF s # <<>> /\ Head(s) = " " THEN strip_spaces(Tail(s))
    ELSE IF s # <<>> /\ s[Len(s)] = " " THEN strip_spaces(SubSeq(s, 1, Len(s) - 1))
    ELSE s

\* s.strip()
strip(s) == rstrip(lstrip(s))

(***************************************************************************)
(* language_map and detect_language_code.                                  *)
(***************************************************************************)
None == "<None>"

language_map ==
    << <<<<"d", "u", "t", "c", "h">>, "nl">>,
       <<<<"g", "e", "r", "m", "a", "n">>, "de">>,
       <<<<"i", "t", "a", "l", "i", "a", "n">>, "it">>,
       <<<<"j", "a", "p", "a", "n", "e", "s", "e">>, "ja">>,
       <<<<"k", "o", "r", "e", "a", "n">>, "ko">>,
       <<<<"p", "o", "l", "i", "s", "h">>, "pl">>,
       <<<<"p", "o", "r", "t", "u", "g", "u", "e", "s", "e">>, "pt">>,
       <<<<"r", "u", "s", "s", "i", "a", "n">>, "ru">>,
       <<<<"s", "p", "a", "n", "i", "s", "h">>, "es">>,
       <<<<"t", "u", "r", "k", "i", "s", "h">>, "tr">>,
       <<<<"f", "r", "e", "n", "c", "h">>, "fr">>,
       <<<<"f", "r">>, "fr">>,
       <<<<"e", "n", "g", "l", "i", "s", "h">>, "en">> >>

\* the first entry of language_map whose name occurs in lower_name
RECURSIVE FirstMatch(_, _)
FirstMatch(lower_name, i) ==
    IF i > Len(language_map) THEN None
    ELSE IF Contains(lower_name, language_map[i][1]) THEN language_map[i][2]
    ELSE FirstMatch(lower_name, i + 1)

detect_language_code(file_name) == FirstMatch(lower(file_name), 1)

(***************************************************************************)
(* extract_params: set(re.findall(r"{(\w+)}", text)).                      *)
(***************************************************************************)
\* the end of the longest run of word characters that starts at i
RECURSIVE WordEnd(_, _)
WordEnd(text, i) ==
    IF i <= Len(text) /\ text[i] \in WordChars THEN WordEnd(text, i + 1) ELSE i

\* the scan of re.findall from position i: a match is taken where it starts
\* and the scan resumes after it, otherwise it moves one character on
RECURSIVE FindAll(_, _)
FindAll(text, i) ==
    IF i > Len(text) THEN <<>>
    ELSE LET e == WordEnd(text, i + 1)
         IN  IF text[i] = "{" /\ e > i + 1 /\ e <= Len(text) /\ text[e] = "}"
             THEN <<SubSeq(text, i + 1, e - 1)>> \o FindAll(text, e + 1)
             ELSE FindAll(text, i + 1)

extract_params(text) == Range(FindAll(text, 1))

(***************************************************************************)
(* check_text_issues.                                                      *)
(***************************************************************************)
\* lines 82-92: the leading/trailing space and newline checks
EdgeIssues(src, tgt) ==
    (IF startswith(src, <<" ">>) /\ ~startswith(tgt, <<" ">>)
     THEN <<"missing_start_space">> ELSE <<>>)
    \o (IF endswith(src, <<" ">>) /\ ~endswith(tgt, <<" ">>)
        THEN <<"missing_end_space">> ELSE <<>>)
    \o (IF startswith(src, <<"\n">>) /\ ~startswith(tgt, <<"\n">>)
        THEN <<"missing_start_line_break">> ELSE <<>>)
    \o (IF endswith(src, <<"\n">>) /\ ~endswith(tgt, <<"\n">>)
        THEN <<"missing_end_line_break">> ELSE <<>>)

\* lines 94-96: the line-break count
CountIssues(src, tgt) ==
    IF count(src, "\n") # count(tgt, "\n")
    THEN <<"wrong_line_break_count">> ELSE <<>>

\* lines 98-103: the final dot, except for Japanese
DotIssues(src, tgt, lang) ==
    IF lang # "ja"
    THEN IF endswith(src, <<".">>) /\ ~endswith(tgt, <<".">>)
         THEN <<"missing_end_dot">>
         ELSE IF ~endswith(src, <<".">>) /\ endswith(tgt, <<".">>)
              THEN <<"extra_end_dot">>
              ELSE <<>>
    ELSE <<>>

\* the final dot is checked for Japanese too
check_text_issues_noja(src, tgt, lang) ==
    EdgeIssues(src, tgt) \o CountIssues(src, tgt) \o DotIssues(src, tgt, "unknown")

\* the line-break count is reported only when the target has fewer
check_text_issues_fewer(src, tgt, lang) ==
    EdgeIssues(src, tgt)
    \o (IF count(src, "\n") > count(tgt, "\n")
        THEN <<"wrong_line_break_count">> ELSE <<>>)
    \o DotIssues(src, tgt, lang)

\* extra_end_dot whenever the target ends with a dot
check_text_issues_dot(src, tgt, lang) ==
    EdgeIssues(src, tgt) \o CountIssues(src, tgt)
    \o (IF lang # "ja"
        THEN IF endswith(src, <<".">>) /\ ~endswith(tgt, <<".">>)
             THEN <<"missing_end_dot">>
             ELSE IF endswith(tgt, <<".">>) THEN <<"extra_end_dot">> ELSE <<>>
        ELSE <<>>)

check_text_issues(src, tgt, lang) ==
    EdgeIssues(src, tgt) \o CountIssues(src, tgt) \o DotIssues(src, tgt, lang)

(***************************************************************************)
(* JSON values as json.load returns them, and dicts.                       *)
(***************************************************************************)
Str(s) == [t |-> "str", s |-> s]

Num(n) == [t |-> "int", n |-> n]

Null == [t |-> "NoneType"]

List == [t |-> "list"]

Dict(items) == [t |-> "dict", items |-> items]

\* isinstance(v, str)
isinstance_str(v) == v.t = "str"

\* list(d.keys())
keys(d) == [i \in DOMAIN d |-> d[i].key]

\* d[k]
Get(d, k) == d[CHOOSE i \in DOMAIN d : d[i].key = k].val

\* no key is left out
NotMeta_All(k) == TRUE

\* not k.startswith("@")
NotMeta(k) == ~startswith(k, <<"@">>)

\* [k for k in d.keys() if not k.startswith("@")]
comparable_keys(d) == SelectSeq(keys(d), NotMeta)

\* [k for k in a if k in b]
NotIn_Inverted(a, b) == SelectSeq(a, LAMBDA k : k \in Range(b))

\* [k for k in a if k not in b]
NotIn(a, b) == SelectSeq(a, LAMBDA k : k \notin Range(b))

(***************************************************************************)
(* compare_arb_files.  missingParams and extraParams are lists built by    *)
(* iterating a Python set, whose order is not fixed: the model keeps the   *)
(* set of their elements.                                                  *)
(***************************************************************************)
\* ref_val == tgt_val alone
IsIdentical_NoElif(ref_val, tgt_val) == ref_val = tgt_val

\* line 144, the elif of line 142: tgt_val is not empty and equals ref_val
IsIdentical(ref_val, tgt_val) == tgt_val # <<>> /\ ref_val = tgt_val

\* lines 141-164: the three lists after the trimmed values of key were
\* classified and checked
Analyze(acc, key, ref_val, tgt_val, lang) ==
    LET ref_params == extract_params(ref_val)
        tgt_params == extract_params(tgt_val)
        missing_params == {p \in ref_params : p \notin tgt_params}
        extra_params == {p \in tgt_params : p \notin ref_params}
        text_issues == check_text_issues(ref_val, tgt_val, lang)
    IN  [empty_translations |->
            IF tgt_val = <<>>
            THEN Append(acc.empty_translations, key)
            ELSE acc.empty_translations,
         identical_translations |->
            IF IsIdentical(ref_val, tgt_val)
            THEN Append(acc.identical_translations, key)
            ELSE acc.identical_translations,
         parameter_issues |->
            IF missing_params # {} \/ extra_params # {} \/ text_issues # <<>>
            THEN Append(acc.parameter_issues,
                        [key |-> key,
                         reference |-> ref_val,
                         target |-> tgt_val,
                         missingParams |-> missing_params,
                         extraParams |-> extra_params,
                         textIssues |-> text_issues])
            ELSE acc.parameter_issues]

\* a value that is no string counts as an empty translation
LoopBody_NonStrEmpty(rdata, tdata, tkeys, lang, key, acc) ==
    IF key \notin Range(tkeys) THEN acc
    ELSE IF ~isinstance_str(Get(rdata, key)) \/ ~isinstance_str(Get(tdata, key))
    THEN [acc EXCEPT !.empty_translations = Append(@, key)]
    ELSE Analyze(acc, key, strip(Get(rdata, key).s), strip(Get(tdata, key).s), lang)

\* lines 129-164: the three lists after the body of the for loop ran for key
LoopBody(rdata, tdata, tkeys, lang, key, acc) ==
    IF key \notin Range(tkeys) THEN acc
    ELSE
    LET ref_raw == Get(rdata, key)
        tgt_raw == Get(tdata, key)
    IN  IF ~isinstance_str(ref_raw) \/ ~isinstance_str(tgt_raw) THEN acc
        ELSE Analyze(acc, key, strip(ref_raw.s), strip(tgt_raw.s), lang)

\* for key in ref_keys, from the i-th key on
RECURSIVE Loop(_, _, _, _, _, _, _)
Loop(rdata, tdata, rkeys, tkeys, lang, i, acc) ==
    IF i > Len(rkeys) THEN acc
    ELSE Loop(rdata, tdata, rkeys, tkeys, lang, i + 1,
              LoopBody(rdata, tdata, tkeys, lang, rkeys[i], acc))

\* detect_language_code(target_file_name), None when nothing matches
LangCodeOf_NoDefault(fname) == detect_language_code(fname)

\* detect_language_code(target_file_name) or "unknown"
LangCodeOf(fname) ==
    LET code == detect_language_code(fname)
    IN  IF code = None THEN "unknown" ELSE code

\* lines 118-173, given the two key lists of lines 115-116
compare_rest(rdata, tdata, rkeys, tkeys, fname) ==
    LET missing_keys == NotIn(rkeys, tkeys)
        extra_keys == NotIn(tkeys, rkeys)
        lang == LangCodeOf(fname)
        lists == Loop(rdata, tdata, rkeys, tkeys, lang, 1,
                      [empty_translations |-> <<>>,
                       identical_translations |-> <<>>,
                       parameter_issues |-> <<>>])
    IN  [langCode |-> lang,
         missingKeys |-> missing_keys,
         extraKeys |-> extra_keys,
         emptyTranslations |-> lists.empty_translations,
         identicalTranslations |-> lists.identical_translations,
         parameterIssues |-> lists.parameter_issues]

\* compare_arb_files on two dicts
compare_arb_files(rdata, tdata, fname) ==
    compare_rest(rdata, tdata,
                 comparable_keys(rdata), comparable_keys(tdata),
                 fname)

(***************************************************************************)
(* Inputs.                                                                 *)
(***************************************************************************)
\* every str of at most n characters of alphabet
Strings(alphabet, n) == UNION {[1..k -> alphabet] : k \in 0..n}

\* every dict of at most n items with keys of ks and values of vs
Mappings(ks, vs, n) ==
    {m \in UNION {[1..k -> [key : ks, val : vs]] : k \in 0..n} :
        \A i, j \in DOMAIN m : m[i].key = m[j].key => i = j}

ja_arb == <<"j", "a", ".", "a", "r", "b">>

es_arb == <<"e", "s", ".", "a", "r", "b">>

japanese_arb == <<"j", "a", "p", "a", "n", "e", "s", "e", ".", "a", "r", "b">>

Spanish_arb == <<"S", "p", "a", "n", "i", "s", "h", ".", "a", "r", "b">>

FileNames == {ja_arb, es_arb, japanese_arb, Spanish_arb}

\* the characters of the texts given to check_text_issues
TextAlphabet == {" ", "\n", ".", "n"}

Texts == Strings(TextAlphabet, MaxTextLen)

LangCodes == {"ja", "en", "unknown"}

\* the characters of the translations with placeholders
BraceAlphabet == {"{", "n", "}", "."}

\* a dict with the one key x
OneKey(v) == <<[key |-> <<"x">>, val |-> v]>>

Keys == { <<"x">>, <<"n">>, <<"@", "x">> }

Done == <<"D", "o", "n", "e">>

KeyVals == {Str(<<>>), Str(Done \o <<".">>), Num(123)}

ScenarioVals == KeyVals \cup {Str(Done), Null}

\* a name with a language name in it, and one without
TwoNames == {es_arb, japanese_arb}

(***************************************************************************)
(* check_text_issues applied to any two texts.                             *)
(***************************************************************************)
InitCheck ==
    /\ pc = "check"
    /\ source \in Texts
    /\ target \in Texts
    /\ lang_code \in LangCodes
    /\ issues = <<>>
    /\ ref_file = <<>> /\ tgt_file = <<>> /\ tgt_name = <<>>
    /\ reference_data = <<>> /\ target_data = <<>>
    /\ ref_keys = <<>> /\ tgt_keys = <<>>
    /\ results = <<>> /\ exc = <<>> /\ ui = <<>>

CheckTextIssues ==
    /\ pc = "check"
    /\ issues' = <<check_text_issues(source, target, lang_code)>>
    /\ pc' = "checked"
    /\ UNCHANGED <<fileVars, tgt_name, reference_data, target_data, ref_keys,
                   tgt_keys, results, exc, ui, source, target, lang_code>>

NextCheck == CheckTextIssues

SpecCheck == InitCheck /\ [][NextCheck]_vars

(***************************************************************************)
(* compare_arb_files applied to any two dicts and a file name.             *)
(***************************************************************************)
InitCompare ==
    /\ pc = "compare"
    /\ \/ /\ \E r, t \in Strings(TextAlphabet, MaxLen) :
                  /\ reference_data = <<Dict(OneKey(Str(r)))>>
                  /\ target_data = <<Dict(OneKey(Str(t)))>>
             /\ tgt_name \in TwoNames
       \/ /\ \E r, t \in Strings(BraceAlphabet, MaxLen) :
                  /\ reference_data = <<Dict(OneKey(Str(r)))>>
                  /\ target_data = <<Dict(OneKey(Str(t)))>>
             /\ tgt_name = es_arb
       \/ /\ \E r, t \in Mappings(Keys, KeyVals, MaxKeys) :
                  /\ reference_data = <<Dict(r)>>
                  /\ target_data = <<Dict(t)>>
             /\ tgt_name \in TwoNames
       \/ /\ \E r, t \in ScenarioVals :
                  /\ reference_data = <<Dict(OneKey(r))>>
                  /\ target_data = <<Dict(OneKey(t))>>
             /\ tgt_name \in FileNames
    /\ results = <<>>
    /\ ref_file = <<>> /\ tgt_file = <<>>
    /\ ref_keys = <<>> /\ tgt_keys = <<>>
    /\ exc = <<>> /\ ui = <<>>
    /\ source = <<>> /\ target = <<>> /\ lang_code = <<>> /\ issues = <<>>

CallCompare ==
    /\ pc = "compare"
    /\ results' = <<compare_arb_files(reference_data[1].items,
                                      target_data[1].items, tgt_name)>>
    /\ pc' = "compared"
    /\ UNCHANGED <<fileVars, tgt_name, reference_data, target_data, ref_keys,
                   tgt_keys, exc, ui, checkVars>>

NextCompare == CallCompare

SpecCompare == InitCompare /\ [][NextCompare]_vars

(***************************************************************************)
(* main(): the handler of the "Compare ARB Files" button, lines 194-291.   *)
(* An uploaded file either holds no JSON text, and json.load raises a      *)
(* JSONDecodeError, or holds the text of a JSON value, which json.load     *)
(* returns.                                                                *)
(***************************************************************************)
Invalid == [json |-> "invalid",
            error |-> "Expecting value: line 1 column 1 (char 0)"]

Valid(v) == [json |-> "valid", value |-> v]

\* the dicts the uploaded files hold: none or one item
FileDicts == {Dict(m) : m \in Mappings({<<"x">>, <<"n">>}, ScenarioVals, 1)}

Files ==
    {Invalid}
    \cup {Valid(v) : v \in {List, Null, Num(123), Str(<<"n">>)}}
    \cup {Valid(d) : d \in FileDicts}

\* str(e) of the AttributeError of v.keys() on a value that is no dict
AttributeErrorOf(v) ==
    [type |-> "AttributeError", line |-> 0,
     msg |-> <<"'", v.t, "' object has no attribute 'keys'">>]

\* one expander per Issue Record, lines 253-286
IssueWidgets(parameter_issues) ==
    [i \in DOMAIN parameter_issues |->
        [st |-> "expander", field |-> "parameterIssues",
         value |-> parameter_issues[i]]]

\* the streamlit calls of lines 200-288 for a report
Rendering(r) ==
    << [st |-> "subheader", field |-> "", value |-> <<>>],
       [st |-> "write", field |-> "langCode", value |-> r.langCode] >>
    \o (IF r.missingKeys # <<>>
        THEN <<[st |-> "expander", field |-> "missingKeys", value |-> r.missingKeys]>>
        ELSE <<[st |-> "success", field |-> "missingKeys", value |-> <<>>]>>)
    \o (IF r.extraKeys # <<>>
        THEN <<[st |-> "expander", field |-> "extraKeys", value |-> r.extraKeys]>>
        ELSE <<[st |-> "success", field |-> "extraKeys", value |-> <<>>]>>)
    \o (IF r.emptyTranslations # <<>>
        THEN <<[st |-> "expander", field |-> "emptyTranslations",
                value |-> r.emptyTranslations]>>
        ELSE <<[st |-> "success", field |-> "emptyTranslations", value |-> <<>>]>>)
    \o (IF r.identicalTranslations # <<>>
        THEN <<[st |-> "warning", field |-> "identicalTranslations", value |-> <<>>],
               [st |-> "expander", field |-> "identicalTranslations",
                value |-> r.identicalTranslations]>>
        ELSE <<[st |-> "success", field |-> "identicalTranslations", value |-> <<>>]>>)
    \o (IF r.parameterIssues # <<>>
        THEN <<[st |-> "warning", field |-> "parameterIssues", value |-> <<>>]>>
             \o IssueWidgets(r.parameterIssues)
        ELSE <<[st |-> "success", field |-> "parameterIssues", value |-> <<>>]>>)

Init ==
    /\ pc = "load_ref"
    /\ ref_file \in Files
    /\ tgt_file \in Files
    /\ tgt_name \in FileNames
    /\ reference_data = <<>> /\ target_data = <<>>
    /\ ref_keys = <<>> /\ tgt_keys = <<>>
    /\ results = <<>> /\ exc = <<>> /\ ui = <<>>
    /\ source = <<>> /\ target = <<>> /\ lang_code = <<>> /\ issues = <<>>

\* line 195: reference_data = json.load(ref_file)
LoadRef ==
    /\ pc = "load_ref"
    /\ IF ref_file.json = "valid"
       THEN /\ reference_data' = <<ref_file.value>>
            /\ pc' = "load_tgt"
            /\ exc' = exc
       ELSE /\ exc' = <<[type |-> "JSONDecodeError", line |-> 195,
                         msg |-> <<ref_file.error>>]>>
            /\ pc' = "except"
            /\ reference_data' = reference_data
    /\ UNCHANGED <<fileVars, tgt_name, target_data, ref_keys, tgt_keys,
                   results, ui, checkVars>>

\* line 196: target_data = json.load(tgt_file)
LoadTgt ==
    /\ pc = "load_tgt"
    /\ IF tgt_file.json = "valid"
       THEN /\ target_data' = <<tgt_file.value>>
            /\ pc' = "line115"
            /\ exc' = exc
       ELSE /\ exc' = <<[type |-> "JSONDecodeError", line |-> 196,
                         msg |-> <<tgt_file.error>>]>>
            /\ pc' = "except"
            /\ target_data' = target_data
    /\ UNCHANGED <<fileVars, tgt_name, reference_data, ref_keys, tgt_keys,
                   results, ui, checkVars>>

\* line 198 enters compare_arb_files; line 115 lists the reference keys
Compare115 ==
    /\ pc = "line115"
    /\ IF reference_data[1].t = "dict"
       THEN /\ ref_keys' = <<comparable_keys(reference_data[1].items)>>
            /\ pc' = "line116"
            /\ exc' = exc
       ELSE /\ exc' = <<[AttributeErrorOf(reference_data[1]) EXCEPT !.line = 115]>>
            /\ pc' = "except"
            /\ ref_keys' = ref_keys
    /\ UNCHANGED <<fileVars, tgt_name, reference_data, target_data, tgt_keys,
                   results, ui, checkVars>>

\* line 116 lists the target keys
Compare116 ==
    /\ pc = "line116"
    /\ IF target_data[1].t = "dict"
       THEN /\ tgt_keys' = <<comparable_keys(target_data[1].items)>>
            /\ pc' = "line118"
            /\ exc' = exc
       ELSE /\ exc' = <<[AttributeErrorOf(target_data[1]) EXCEPT !.line = 116]>>
            /\ pc' = "except"
            /\ tgt_keys' = tgt_keys
    /\ UNCHANGED <<fileVars, tgt_name, reference_data, target_data, ref_keys,
                   results, ui, checkVars>>

\* lines 118-173 build the report, line 198 assigns it
CompareRest ==
    /\ pc = "line118"
    /\ results' = <<compare_rest(reference_data[1].items, target_data[1].items,
                                 ref_keys[1], tgt_keys[1], tgt_name)>>
    /\ pc' = "render"
    /\ UNCHANGED <<fileVars, tgt_name, reference_data, target_data, ref_keys,
                   tgt_keys, exc, ui, checkVars>>

\* lines 200-288
Render ==
    /\ pc = "render"
    /\ ui' = ui \o Rendering(results[1])
    /\ pc' = "done"
    /\ UNCHANGED <<fileVars, tgt_name, reference_data, target_data, ref_keys,
                   tgt_keys, results, exc, checkVars>>

\* except Exception: pass
Except_Silent ==
    /\ pc = "except"
    /\ pc' = "done"
    /\ UNCHANGED <<fileVars, tgt_name, reference_data, target_data, ref_keys,
                   tgt_keys, results, exc, ui, checkVars>>

\* lines 290-291: st.error(f"An error occurred: {e}")
Except ==
    /\ pc = "except"
    /\ ui' = Append(ui, [st |-> "error", field |-> "",
                         value |-> <<"An error occurred: ">> \o exc[1].msg])
    /\ pc' = "done"
    /\ UNCHANGED <<fileVars, tgt_name, reference_data, target_data, ref_keys,
                   tgt_keys, results, exc, checkVars>>

Next ==
    \/ LoadRef
    \/ LoadTgt
    \/ Compare115
    \/ Compare116
    \/ CompareRest
    \/ Render
    \/ Except

Spec == Init /\ [][Next]_vars

(***************************************************************************)
(* Properties of compare_arb_files, checked under SpecCompare.             *)
(***************************************************************************)
Compared == pc = "compared"

RefItems == reference_data[1].items

TgtItems == target_data[1].items

Report == results[1]

HasKey(d, k) == k \in Range(keys(d))

AllKeys == Range(keys(RefItems)) \cup Range(keys(TgtItems))

Shared(k) == HasKey(RefItems, k) /\ HasKey(TgtItems, k)

IsMeta(k) == Len(k) >= 1 /\ k[1] = "@"

\* the Issue Records of key k
RecordsOf(k) ==
    {i \in DOMAIN Report.parameterIssues : Report.parameterIssues[i].key = k}

\* key k has the reference value "Done." and the target value "Done"
DoneCase(k) ==
    /\ Shared(k)
    /\ Get(RefItems, k) = Str(Done \o <<".">>)
    /\ Get(TgtItems, k) = Str(Done)

NoMissingEndDot(k) ==
    \A i \in RecordsOf(k) :
        "missing_end_dot" \notin Range(Report.parameterIssues[i].textIssues)

\* C1 as claimed: with reference "Done.", target "Done" and the target file
\* name "ja.arb", the report has no missing_end_dot for the key.
C1_Original ==
    (Compared /\ tgt_name = ja_arb) =>
        \A k \in AllKeys : DoneCase(k) => NoMissingEndDot(k)

\* C1 as amended: with reference "Done." and target "Done" under a key that
\* is compared, the report has no missing_end_dot for the key when the
\* target file name is "japanese.arb"; with "ja.arb" no language name is
\* found, langCode is "unknown" and missing_end_dot is reported for the key.
C1_Amended ==
    Compared =>
        \A k \in AllKeys : (DoneCase(k) /\ ~IsMeta(k)) =>
            /\ tgt_name = japanese_arb =>
                  (Report.langCode = "ja" /\ NoMissingEndDot(k))
            /\ tgt_name = ja_arb =>
                  (Report.langCode = "unknown" /\ ~NoMissingEndDot(k))

C1_Witness ==
    /\ Compared
    /\ tgt_name = japanese_arb
    /\ \E k \in AllKeys : DoneCase(k) /\ ~IsMeta(k) /\ RecordsOf(k) = {}

ScenarioB ==
    /\ RefItems = <<[key |-> <<"x">>, val |-> Str(<<>>)]>>
    /\ TgtItems = <<[key |-> <<"x">>, val |-> Str(<<>>)]>>
    /\ tgt_name = es_arb

\* C2 as claimed: reference {"x": ""}, target {"x": ""} and the file name
\* "es.arb" give emptyTranslations = ["x"] and langCode = "es".
C2_Original ==
    (Compared /\ ScenarioB) =>
        /\ Report.emptyTranslations = << <<"x">> >>
        /\ Report.langCode = "es"

\* C2 as amended: reference {"x": ""}, target {"x": ""} and the file name
\* "es.arb" give emptyTranslations = ["x"] and langCode = "unknown".
C2_Amended ==
    (Compared /\ ScenarioB) =>
        /\ Report.emptyTranslations = << <<"x">> >>
        /\ Report.langCode = "unknown"

C2_Witness == Compared /\ ScenarioB /\ Report.parameterIssues = <<>>

\* the for loop reaches its trimming for key k
Analyzed(k) ==
    /\ ~IsMeta(k)
    /\ Shared(k)
    /\ Get(RefItems, k).t = "str"
    /\ Get(TgtItems, k).t = "str"

\* the text between the first and the last character that is no whitespace
Trimmed(s) ==
    LET solid == {i \in DOMAIN s : s[i] \notin Whitespace}
    IN  IF solid = {} THEN <<>>
        ELSE SubSeq(s, CHOOSE i \in solid : \A j \in solid : i <= j,
                       CHOOSE i \in solid : \A j \in solid : i >= j)

TrimmedRef(k) == Trimmed(Get(RefItems, k).s)

TrimmedTgt(k) == Trimmed(Get(TgtItems, k).s)

\* C3: no key is in both emptyTranslations and identicalTranslations; a key
\* is in emptyTranslations exactly when its trimmed target value is empty
\* and in identicalTranslations exactly when its trimmed target value is
\* non-empty and equal to the trimmed reference value.
C3_EmptyIdentical ==
    Compared =>
        \A k \in AllKeys :
            /\ (k \in Range(Report.emptyTranslations)
                <=> (Analyzed(k) /\ TrimmedTgt(k) = <<>>))
            /\ (k \in Range(Report.identicalTranslations)
                <=> (Analyzed(k) /\ TrimmedTgt(k) # <<>>
                     /\ TrimmedRef(k) = TrimmedTgt(k)))
            /\ ~(k \in Range(Report.emptyTranslations)
                 /\ k \in Range(Report.identicalTranslations))

\* both values are whitespace only: the key is empty, not identical
C3_Witness ==
    /\ Compared
    /\ \E k \in AllKeys :
         /\ Analyzed(k)
         /\ Get(RefItems, k).s = <<" ">>
         /\ Get(TgtItems, k).s = <<"\n", " ">>
         /\ k \in Range(Report.emptyTranslations)

\* C4: missingKeys and extraKeys are disjoint.
C4_Disjoint ==
    Compared => Range(Report.missingKeys) \cap Range(Report.extraKeys) = {}

C4_Witness ==
    /\ Compared
    /\ Report.missingKeys # <<>>
    /\ Report.extraKeys # <<>>

\* the keys of the Issue Records
IssueKeys ==
    {Report.parameterIssues[i].key : i \in DOMAIN Report.parameterIssues}

\* every key the report names
ReportedKeys ==
    Range(Report.missingKeys) \cup Range(Report.extraKeys)
    \cup Range(Report.emptyTranslations)
    \cup Range(Report.identicalTranslations) \cup IssueKeys

\* C5: no key that starts with "@" is in missingKeys, extraKeys,
\* emptyTranslations, identicalTranslations or an Issue Record.
C5_NoMetaKeys == Compared => \A k \in ReportedKeys : ~IsMeta(k)

\* an "@" key in one dict only, and an "@" key in both with differing texts
C5_Witness ==
    /\ Compared
    /\ \E k \in AllKeys :
         /\ IsMeta(k)
         /\ Shared(k)
         /\ Get(RefItems, k) = Str(Done \o <<".">>)
         /\ Get(TgtItems, k) = Str(<<>>)
    /\ ReportedKeys # {}

\* the dict without key k
Without(d, k) == SelectSeq(d, LAMBDA e : e.key # k)

TypeMismatch(k) ==
    /\ Shared(k)
    /\ (Get(RefItems, k).t # "str" \/ Get(TgtItems, k).t # "str")

\* C6: a key of both dicts whose reference or target value is no string is
\* in no list of the report, and the report is the one of the two dicts
\* without that key.
C6_TypeMismatchSkipped ==
    Compared =>
        \A k \in AllKeys : TypeMismatch(k) =>
            /\ k \notin ReportedKeys
            /\ Report = compare_arb_files(Without(RefItems, k),
                                          Without(TgtItems, k), tgt_name)

\* the reference value alone is no string, and another key has an Issue Record
C6_Witness ==
    /\ Compared
    /\ \E k \in AllKeys :
         /\ TypeMismatch(k)
         /\ ~IsMeta(k)
         /\ Get(TgtItems, k).t = "str"
    /\ Report.parameterIssues # <<>>

EdgeCodes ==
    {"missing_start_space", "missing_end_space",
     "missing_start_line_break", "missing_end_line_break"}

\* C9: no Issue Record holds missing_start_space, missing_end_space,
\* missing_start_line_break or missing_end_line_break, and the reference and
\* target of every Issue Record are the trimmed values.
C9_TrimmedFirst ==
    Compared =>
        \A i \in DOMAIN Report.parameterIssues :
            LET rec == Report.parameterIssues[i]
            IN  /\ Range(rec.textIssues) \cap EdgeCodes = {}
                /\ Analyzed(rec.key)
                /\ rec.reference = TrimmedRef(rec.key)
                /\ rec.target = TrimmedTgt(rec.key)

\* the untrimmed reference starts with a space and ends with a line break,
\* the target does neither, and the key has an Issue Record
C9_Witness ==
    /\ Compared
    /\ \E i \in DOMAIN Report.parameterIssues :
         LET k == Report.parameterIssues[i].key
         IN  /\ Get(RefItems, k).s = <<" ", ".", "\n">>
             /\ Get(TgtItems, k).s = <<"n">>

\* C10: a key of identicalTranslations has no Issue Record.
C10_IdenticalClean ==
    Compared => Range(Report.identicalTranslations) \cap IssueKeys = {}

\* an identical key, and an empty key that has an Issue Record
C10_Witness ==
    /\ Compared
    /\ \E k \in Range(Report.identicalTranslations) :
         Get(RefItems, k).s = Done \o <<".">>
    /\ Range(Report.emptyTranslations) \cap IssueKeys # {}

(***************************************************************************)
(* Properties of check_text_issues, checked under SpecCheck.               *)
(***************************************************************************)
Checked == pc = "checked"

Returned == issues[1]

CodeOrder ==
    <<"missing_start_space", "missing_end_space", "missing_start_line_break",
      "missing_end_line_break", "wrong_line_break_count", "missing_end_dot",
      "extra_end_dot">>

PosOf(c) == CHOOSE i \in DOMAIN CodeOrder : CodeOrder[i] = c

FirstIs(s, c) == Len(s) >= 1 /\ s[1] = c

LastIs(s, c) == Len(s) >= 1 /\ s[Len(s)] = c

LineBreaks(s) == Len(SelectSeq(s, LAMBDA c : c = "\n"))

\* the condition of each issue code
Holds(c) ==
    CASE c = "missing_start_space" -> FirstIs(source, " ") /\ ~FirstIs(target, " ")
      [] c = "missing_end_space" -> LastIs(source, " ") /\ ~LastIs(target, " ")
      [] c = "missing_start_line_break" ->
            FirstIs(source, "\n") /\ ~FirstIs(target, "\n")
      [] c = "missing_end_line_break" ->
            LastIs(source, "\n") /\ ~LastIs(target, "\n")
      [] c = "wrong_line_break_count" -> LineBreaks(source) # LineBreaks(target)
      [] c = "missing_end_dot" ->
            lang_code # "ja" /\ LastIs(source, ".") /\ ~LastIs(target, ".")
      [] c = "extra_end_dot" ->
            lang_code # "ja" /\ ~LastIs(source, ".") /\ LastIs(target, ".")

\* C8: check_text_issues returns exactly the codes whose condition holds,
\* each at most once and in the fixed order; at most one of missing_end_dot
\* and extra_end_dot, and neither when lang_code is "ja".
C8_ExactOrdered ==
    Checked =>
        /\ Range(Returned) = {c \in Range(CodeOrder) : Holds(c)}
        /\ \A i, j \in DOMAIN Returned :
              i < j => PosOf(Returned[i]) < PosOf(Returned[j])
        /\ ~({"missing_end_dot", "extra_end_dot"} \subseteq Range(Returned))
        /\ lang_code = "ja" =>
              Range(Returned) \cap {"missing_end_dot", "extra_end_dot"} = {}

C8_Witness ==
    /\ Checked
    /\ source = <<"\n", " ", ".">>
    /\ target = <<"n", "\n", "\n">>
    /\ Returned = <<"missing_start_line_break", "wrong_line_break_count",
                    "missing_end_dot">>

(***************************************************************************)
(* Properties of main(), checked under Spec.                               *)
(***************************************************************************)
IsValid(f) == f.json = "valid"

IsObject(f) == f.json = "valid" /\ f.value.t = "dict"

BothObjects == IsObject(ref_file) /\ IsObject(tgt_file)

\* control is inside compare_arb_files
InCompare == pc \in {"line115", "line116", "line118"}

\* the streamlit calls that show the report
ReportWidgets == {i \in DOMAIN ui : ui[i].st # "error"}

\* the message of the exception the two files lead to
FailureMessage ==
    IF ~IsValid(ref_file) THEN <<ref_file.error>>
    ELSE IF ~IsValid(tgt_file) THEN <<tgt_file.error>>
    ELSE IF ~IsObject(ref_file)
    THEN <<"'", ref_file.value.t, "' object has no attribute 'keys'">>
    ELSE <<"'", tgt_file.value.t, "' object has no attribute 'keys'">>

\* when the handler is done after a failure: one error, nothing else
OneErrorOnly ==
    (pc = "done" /\ ~BothObjects) =>
        /\ results = <<>>
        /\ Len(ui) = 1
        /\ ui[1].st = "error"
        /\ ui[1].value = <<"An error occurred: ">> \o FailureMessage

\* C7 as claimed: no statement of compare_arb_files runs unless both files
\* were parsed into JSON objects; otherwise no report field is rendered and
\* exactly one error with the failure message is reported.
C7_Original ==
    /\ (ref_keys # <<>> \/ tgt_keys # <<>> \/ results # <<>>) => BothObjects
    /\ ~BothObjects => ReportWidgets = {}
    /\ OneErrorOnly

\* C7 as amended: compare_arb_files is entered only after json.load returned
\* for both files; a file that is no JSON keeps it from being called; a
\* top-level value that is no object makes the call raise at line 115 or 116,
\* before the keys are compared and before any report exists; in each of
\* these cases no report field is rendered and exactly one error with the
\* failure message is reported.
C7_Amended ==
    /\ (InCompare \/ ref_keys # <<>>) =>
          /\ IsValid(ref_file) /\ reference_data = <<ref_file.value>>
          /\ IsValid(tgt_file) /\ target_data = <<tgt_file.value>>
    /\ (pc = "line116" \/ ref_keys # <<>>) => IsObject(ref_file)
    /\ (pc \in {"line118", "render"} \/ tgt_keys # <<>> \/ results # <<>>)
          => BothObjects
    /\ ~BothObjects => ReportWidgets = {}
    /\ OneErrorOnly

\* the target file holds a JSON value that is no object: line 115 listed the
\* reference keys, line 116 raised, one error is shown
C7_Witness ==
    /\ pc = "done"
    /\ IsObject(ref_file)
    /\ IsValid(tgt_file) /\ ~IsObject(tgt_file)
    /\ ref_keys # <<>>
    /\ Len(ui) = 1

====
